---- MODULE Spec2Model ----
(***************************************************************************)
(* debuglater/pydump.py: capture of a failing call stack into a dump,      *)
(* the value sanitizer, the load of a dump with its serializer fallback,   *)
(* the sys.path context manager and the debugging session of debug_dump.   *)
(***************************************************************************)
EXTENDS Integers, Sequences, FiniteSets, TLC

VARIABLES
    dill,       \* TRUE iff `import dill` succeeded (pydump.py:42-45)
    conv,       \* the last sanitizer call: [fn, arg, out]
    disk,       \* the dump file: [container, byDill, byPickle, payload]
    out,        \* how the last call of the API ended: [op, status, err, value, attempts]
    sys_modules,\* TRUE iff "debuglater.pydump" is a key of sys.modules
    sys_path,   \* sys.path, a sequence of directories
    cwd,        \* the working directory
    ctx,        \* add_to_sys_path's generator: [pc, path, cwd_old, left]
    entry,      \* sys.path and the working directory when add_to_sys_path was entered
    live,       \* the live traceback: [stack, start], stack[1] the outermost frame
    fs,         \* the source files: path -> [status, text]
    pc,         \* debug_dump's position: "idle" or "post_mortem"
    linecache_cache,    \* linecache.cache, as the pairs <<name, entry>>
    checkcache,         \* what linecache.checkcache is bound to
    old_checkcache,     \* debug_dump's local _old_checkcache
    inspect_patched,    \* inspect.isframe, iscode, isclass, istraceback replaced
    dbg         \* what post_mortem_func was handed: [tbs, frames, tb]

loadVars == <<disk, out, sys_modules>>

pathVars == <<sys_path, cwd>>

ctxVars == <<ctx, entry>>

capVars == <<live, fs>>

dbgVars == <<pc, linecache_cache, checkcache, old_checkcache, inspect_patched, dbg>>

procVars == <<loadVars, pathVars, ctxVars, capVars, dbgVars>>

vars == <<dill, conv, procVars>>

None == 0

(***************************************************************************)
(* The live values of the failing process.  A value is an id; Obj(id) is   *)
(* what the interpreter knows of it: its exact type, its text (atoms),     *)
(* what repr() gives (or the message of the error repr() raises), its      *)
(* elements in iteration order, its __dict__ and whether dill can dump it. *)
(***************************************************************************)
Atom(ty, text, rp) ==
    [ty |-> ty, text |-> text, repr |-> rp, reprOk |-> TRUE, items |-> <<>>,
     pairs |-> <<>>, hasDict |-> FALSE, attrs |-> <<>>, picklable |-> TRUE]

Cont(ty, rp, rok, items, pairs) ==
    [ty |-> ty, text |-> "", repr |-> rp, reprOk |-> rok, items |-> items,
     pairs |-> pairs, hasDict |-> FALSE, attrs |-> <<>>, picklable |-> TRUE]

Inst(ty, rp, rok, hasDict, attrs, pk) ==
    [ty |-> ty, text |-> "", repr |-> rp, reprOk |-> rok, items |-> <<>>,
     pairs |-> <<>>, hasDict |-> hasDict, attrs |-> attrs, picklable |-> pk]

Obj(v) ==
    CASE v = 1  -> Atom("NoneType", "None", "None")
      [] v = 2  -> Atom("str", "x", "'x'")
      [] v = 3  -> Atom("str", "len", "'len'")
      [] v = 4  -> Atom("str", "__name__", "'__name__'")
      [] v = 5  -> Atom("str", "self", "'self'")
      [] v = 6  -> Atom("str", "mymod", "'mymod'")
      [] v = 7  -> Atom("int", "1", "1")
      [] v = 8  -> Atom("bool", "True", "True")
      [] v = 9  -> Atom("float", "1.5", "1.5")
      [] v = 10 -> Atom("date", "2020-01-01", "datetime.date(2020, 1, 1)")
      [] v = 11 -> Atom("timedelta", "1 day", "datetime.timedelta(days=1)")
      [] v = 12 -> [Atom("IntSub", "3", "3") EXCEPT !.hasDict = TRUE]   \* class IntSub(int), an empty __dict__
      [] v = 13 -> Atom("bytes", "x", "b'x'")
      [] v = 14 -> Inst("socket", "<socket>", TRUE, FALSE, <<>>, FALSE)
      [] v = 15 -> Inst("Bad", "boom", FALSE, TRUE, <<<<2, 7>>>>, FALSE)
      [] v = 16 -> Inst("K", "K", TRUE, TRUE, <<<<2, 7>>>>, TRUE)
      [] v = 17 -> Inst("K", "K", TRUE, TRUE, <<<<2, 9>>>>, TRUE)
      [] v = 18 -> Cont("list", "[1, 'x']", TRUE, <<7, 2>>, <<>>)
      [] v = 19 -> Cont("tuple", "(1, <socket>)", TRUE, <<7, 14>>, <<>>)
      [] v = 20 -> Cont("set", "{1, 'x'}", TRUE, <<7, 2>>, <<>>)
      [] v = 21 -> Cont("dict", "{'x': 1, K: 1.5}", TRUE, <<>>, <<<<2, 7>>, <<16, 9>>>>)
      [] v = 22 -> Cont("dict", "{K: 1, K: 1.5}", TRUE, <<>>, <<<<16, 7>>, <<17, 9>>>>)
      [] v = 23 -> Cont("list", "[[1, 'x']]", TRUE, <<18>>, <<>>)
      [] v = 24 -> Cont("list", "[[[1, 'x']]]", TRUE, <<23>>, <<>>)
      [] v = 25 -> Cont("list", "[[...]]", TRUE, <<25>>, <<>>)          \* l = []; l.append(l)
      [] v = 26 -> Cont("dict", "{'x': {...}}", TRUE, <<>>, <<<<2, 26>>>>) \* d = {}; d['x'] = d
      [] v = 27 -> Cont("tuple", "boom", FALSE, <<15>>, <<>>)
      [] v = 28 -> Inst("Conn", "<Conn>", TRUE, TRUE, <<<<2, 7>>, <<3, 14>>>>, FALSE)
      [] v = 29 -> Inst("Node", "<Node>", TRUE, TRUE, <<<<2, 29>>>>, TRUE) \* n.x = n
      [] v = 30 -> Inst("function", "<function f>", TRUE, TRUE, <<>>, TRUE)
      [] v = 31 -> Cont("set", "{K, K}", TRUE, <<16, 17>>, <<>>)
      [] v = 32 -> Cont("frozenset", "frozenset({1})", TRUE, <<7>>, <<>>)
      [] v = 33 -> Inst("Holder", "<Holder>", TRUE, TRUE, <<<<2, 25>>>>, TRUE) \* h.x = l

Values == 1..33

(***************************************************************************)
(* Sanitized values.  One record shape for all of them:                    *)
(*   an atom kept as it is : kind = its type, text = its text              *)
(*   any other value kept  : kind = "ref", id = the live value             *)
(*   a new str             : kind = "str", text                            *)
(*   a rebuilt container   : kind = tuple/list (items), set (elems),       *)
(*                           dict (pairs, in insertion order)              *)
(*   a FakeClass           : kind = "FakeClass", text = repr, pairs = vars *)
(*   an exception leaving the call : kind = "raise", text = its class      *)
(***************************************************************************)
Res(kind, id, text, items, elems, pairs) ==
    [kind |-> kind, id |-> id, text |-> text, items |-> items,
     elems |-> elems, pairs |-> pairs]

NewStr(text) == Res("str", None, text, <<>>, {}, <<>>)

Raised(cls) == Res("raise", None, cls, <<>>, {}, <<>>)

IsAtom(v) == Obj(v).items = <<>> /\ Obj(v).pairs = <<>> /\ Obj(v).text # ""

\* `return v`: the value itself
Same(v) ==
    IF IsAtom(v) THEN Res(Obj(v).ty, None, Obj(v).text, <<>>, {}, <<>>)
    ELSE Res("ref", v, "", <<>>, {}, <<>>)

IsRaise(r) == r.kind = "raise"

\* The depth of Python calls at which the interpreter raises RecursionError.
RecursionLimit == 6

\* pydump.py:267
BUILTIN == {"str", "int", "float", "date", "time", "datetime", "timedelta"}

Children(v) ==
    {Obj(v).items[i] : i \in DOMAIN Obj(v).items}
        \cup {Obj(v).pairs[i][1] : i \in DOMAIN Obj(v).pairs}
        \cup {Obj(v).pairs[i][2] : i \in DOMAIN Obj(v).pairs}
        \cup {Obj(v).attrs[i][1] : i \in DOMAIN Obj(v).attrs}
        \cup {Obj(v).attrs[i][2] : i \in DOMAIN Obj(v).attrs}

RECURSIVE ReachFrom(_, _)
ReachFrom(front, seen) ==
    IF front \subseteq seen THEN seen
    ELSE ReachFrom(UNION {Children(x) : x \in front}, seen \cup front)

\* dill.dumps(v) returns (it memoizes, so a value containing itself is dumped)
DillDumps(v) == \A x \in ReachFrom({v}, {}) : Obj(x).picklable

\* pydump.py:235-239
_safe_repr(v) ==
    IF Obj(v).reprOk THEN NewStr(Obj(v).repr)
    ELSE NewStr("repr error: " \o Obj(v).repr)

\* dict(<generator of pairs>): a key seen again keeps its place and takes the new value
RECURSIVE DictOf(_)
DictOf(ps) ==
    IF ps = <<>> THEN <<>>
    ELSE LET d == DictOf(SubSeq(ps, 1, Len(ps) - 1))
             p == ps[Len(ps)]
         IN  IF \E i \in DOMAIN d : d[i][1] = p[1]
             THEN [i \in DOMAIN d |-> IF d[i][1] = p[1] THEN <<d[i][1], p[2]>> ELSE d[i]]
             ELSE Append(d, p)

\* what the consumer of the generator of _convert_seq gets from the results rs
SeqResult(rs) ==
    IF \E i \in DOMAIN rs : IsRaise(rs[i])
    THEN Raised("RecursionError")
    ELSE Res("seq", None, "", rs, {}, <<>>)

\* dict() of the pairs of _convert_dict's generator, from the converted pairs
DictResult(kvs) ==
    IF \E i \in DOMAIN kvs : IsRaise(kvs[i][1]) \/ IsRaise(kvs[i][2])
    THEN Raised("RecursionError")
    ELSE Res("dict", None, "", <<>>, {}, DictOf(kvs))

\* tuple(), list() or set() of the converted elements sq
Rebuild(ty, sq) ==
    IF IsRaise(sq) THEN sq
    ELSE IF ty = "set"
    THEN Res("set", None, "", <<>>, {sq.items[i] : i \in DOMAIN sq.items}, <<>>)
    ELSE Res(ty, None, "", sq.items, {}, <<>>)

RECURSIVE _convert_at(_, _)
RECURSIVE _convert_seq_at(_, _)
RECURSIVE _convert_dict_at(_, _)

\* pydump.py:253-254, consumed by tuple(), list() or set(): the converted
\* elements in order, or the exception one of them raised
_convert_seq_at(items, depth) ==
    SeqResult([i \in DOMAIN items |-> _convert_at(items[i], depth + 1)])

\* pydump.py:249-250 on the items() of a mapping
_convert_dict_at(pairs, depth) ==
    DictResult([i \in DOMAIN pairs |->
                   <<_convert_at(pairs[i][1], depth + 1),
                     _convert_at(pairs[i][2], depth + 1)>>])

\* pydump.py:257-288, called `depth` Python calls below the sanitizer's entry
_convert_at(v, depth) ==
    IF depth > RecursionLimit THEN Raised("RecursionError")
    ELSE IF dill
    THEN IF DillDumps(v) THEN Same(v) ELSE _safe_repr(v)
    ELSE IF Obj(v).ty = "NoneType" THEN Same(v)
    ELSE IF Obj(v).ty \in BUILTIN THEN Same(v)
    ELSE IF Obj(v).ty \in {"tuple", "list", "set"}
         THEN Rebuild(Obj(v).ty, _convert_seq_at(Obj(v).items, depth))
    ELSE IF Obj(v).ty = "dict" THEN _convert_dict_at(Obj(v).pairs, depth)
    ELSE _safe_repr(v)

_convert(v) == _convert_at(v, 0)

_convert_dict(pairs) == _convert_dict_at(pairs, 0)

\* pydump.py:242-246
\* pydump.py:134-141, FakeClass(repr, vars), or the exception that came instead of vars
FakeClass(rp, attrs) ==
    IF IsRaise(attrs) THEN attrs
    ELSE Res("FakeClass", None, rp.text, <<>>, {}, attrs.pairs)

\* the value of a try block, or of its handler when the block raised
OrElse(tried, handled) == IF IsRaise(tried) THEN handled ELSE tried

\* pydump.py:242-246
_convert_obj(obj) ==
    IF Obj(obj).hasDict
    THEN OrElse(FakeClass(_safe_repr(obj), _convert_dict(Obj(obj).attrs)), _convert(obj))
    ELSE _convert(obj)

NoCall == [fn |-> "none", arg |-> None, out |-> Same(1)]

CallConvert(v) ==
    /\ conv' = [fn |-> "_convert", arg |-> v, out |-> _convert(v)]
    /\ UNCHANGED <<dill, procVars>>

CallConvertObj(v) ==
    /\ conv' = [fn |-> "_convert_obj", arg |-> v, out |-> _convert_obj(v)]
    /\ UNCHANGED <<dill, procVars>>

(***************************************************************************)
(* The dump file and load_dump.                                            *)
(***************************************************************************)
\* pydump.py:47
DUMP_VERSION == 1

NoDump == [traceback |-> None, tbs |-> <<>>, frames |-> <<>>, files |-> <<>>,
           dump_version |-> DUMP_VERSION]

\* What is at the path: a gzip container, an uncompressed pickle stream, a gzip
\* container cut short, or nothing; and which serializers can read its payload.
\* what is at the path: a file that starts as a gzip stream (whole, or cut
\* anywhere after its first bytes), a file that does not (a bare pickle stream,
\* other bytes, a gzip file cut to its first byte), an empty file, or nothing
Containers == {"gzip", "plain", "empty", "missing"}

\* how <lib>.load ends on the bytes the file holds (decompressed, for a gzip
\* stream): it returns, it rejects them, or it runs out of them.  A gzip stream
\* is decompressed as the unpickler asks for bytes, so one cut past the last
\* byte the unpickler needs is read like a whole one.
StreamOutcomes == {"ok", "UnpicklingError", "EOFError"}

File(container, byDill, byPickle, payload) ==
    [container |-> container, byDill |-> byDill, byPickle |-> byPickle,
     payload |-> payload]

NoFile == File("missing", "EOFError", "EOFError", NoDump)

\* the files load_dump may be given; both libraries read the same bytes, so
\* one cannot run out of them where the other finds a whole stream
Files ==
    {f \in {File(c, d, p, NoDump) :
                c \in {"gzip", "plain"}, d \in StreamOutcomes, p \in StreamOutcomes} :
        {f.byDill, f.byPickle} # {"ok", "EOFError"}}
    \cup {File("empty", "EOFError", "EOFError", NoDump), NoFile}

Stream(lib, file) == IF lib = "dill" THEN file.byDill ELSE file.byPickle

\* <lib>.load(f) on handle f: "ok" or the class of the exception it raises.
\* Through gzip.open, bytes that are no gzip stream raise BadGzipFile (an
\* OSError, so an IOError) and an empty file reads as no bytes at all; through
\* open, the unpickler rejects the first byte of a gzip header; a closed file
\* raises ValueError.
ReadOutcome(lib, handle, file) ==
    IF handle = "closed" THEN "ValueError"
    ELSE IF file.container = "empty" THEN "EOFError"
    ELSE IF handle = "gz"
    THEN IF file.container = "gzip" THEN Stream(lib, file) ELSE "IOError"
    ELSE IF file.container = "plain" THEN Stream(lib, file) ELSE "UnpicklingError"

Outcome(op, status, err, value, attempts) ==
    [op |-> op, status |-> status, err |-> err, value |-> value,
     attempts |-> attempts]

NoOutcome == Outcome("none", "none", "", NoDump, <<>>)

Returns(op, value, attempts) == Outcome(op, "ok", "", value, attempts)

Raises(op, err, attempts) == Outcome(op, "raise", err, NoDump, attempts)

\* pydump.py:101-105, with f the handle the name `f` is bound to
pickle_load(file, f, attempts) ==
    LET r3 == ReadOutcome("pickle", f, file)
        a3 == Append(attempts, <<"pickle", f>>)
        r4 == ReadOutcome("pickle", "plain", file)
        a4 == Append(a3, <<"pickle", "plain">>)
    IN  IF r3 = "ok" THEN Returns("load_dump", file.payload, a3)
        ELSE IF r3 = "IOError"
             THEN IF r4 = "ok" THEN Returns("load_dump", file.payload, a4)
                  ELSE Raises("load_dump", r4, a4)
        ELSE Raises("load_dump", r3, a3)

\* pydump.py:83-105
load_dump(file) ==
    IF file.container = "missing" THEN Raises("load_dump", "FileNotFoundError", <<>>)
    ELSE IF dill
    THEN LET r1 == ReadOutcome("dill", "gz", file)
             a1 == <<<<"dill", "gz">>>>
             r2 == ReadOutcome("dill", "plain", file)
             a2 == Append(a1, <<"dill", "plain">>)
         IN  IF r1 = "ok" THEN Returns("load_dump", file.payload, a1)
             ELSE IF r1 = "IOError"
                  THEN IF r2 = "ok" THEN Returns("load_dump", file.payload, a2)
                       \* `with open(filename, "rb") as f` rebound f and closed it
                       ELSE pickle_load(file, "closed", a2)
             ELSE Raises("load_dump", r1, a1)
    ELSE pickle_load(file, "gz", <<>>)

LoadDump ==
    /\ ctx.pc = "out"
    /\ pc = "idle"
    /\ out' = load_dump(disk)
    /\ sys_modules' = TRUE
    /\ UNCHANGED <<dill, conv, disk, pathVars, ctxVars, capVars, dbgVars>>

(***************************************************************************)
(* add_to_sys_path.                                                        *)
(***************************************************************************)
Dirs == {"/a", "/b"}

\* a directory that does not exist: os.chdir raises FileNotFoundError
Gone == "/gone"

\* file names relative to the working directory
Relative == {".", "m.py"}

\* os.path.abspath
abspath(path) ==
    IF path = "." THEN cwd
    ELSE IF path \in Relative THEN cwd \o "/" \o path
    ELSE path

RECURSIVE remove(_, _)
\* list.remove: the first occurrence
remove(s, x) ==
    IF s = <<>> THEN <<>>
    ELSE IF Head(s) = x THEN Tail(s)
    ELSE <<Head(s)>> \o remove(Tail(s), x)

\* sys.path is not grown beyond this length
MaxSysPath == 3

NoCtx == [pc |-> "out", path |-> "", cwd_old |-> "", left |-> "never"]

\* pydump.py:325-332: add_to_sys_path up to its try block.  The generator's
\* locals, sys.path and the working directory after it, and whether os.chdir
\* raised (which leaves the generator before the try block is entered).
enter_effect(path, chdir) ==
    IF path = "None"
    THEN [path |-> "None", cwd_old |-> cwd, sys_path |-> sys_path, cwd |-> cwd,
          err |-> ""]
    ELSE LET abs == abspath(path)
             failed == chdir /\ abs = Gone
         IN  [path |-> abs, cwd_old |-> cwd, sys_path |-> <<abs>> \o sys_path,
              cwd |-> IF chdir /\ ~failed THEN abs ELSE cwd,
              err |-> IF failed THEN "FileNotFoundError" ELSE ""]

\* pydump.py:336-339: the finally clause, on the generator's locals
exit_effect(path, cwd_old, sp, wd) ==
    IF path # "None"
    THEN [sys_path |-> remove(sp, path), cwd |-> cwd_old]
    ELSE [sys_path |-> sp, cwd |-> wd]

\* entering `with add_to_sys_path(path, chdir):`
add_to_sys_path_enter(path, chdir) ==
    LET e == enter_effect(path, chdir)
    IN  /\ ctx.pc = "out"
        /\ pc = "idle"
        /\ Len(sys_path) < MaxSysPath
        /\ entry' = [sys_path |-> sys_path, cwd |-> cwd]
        /\ sys_path' = e.sys_path
        /\ cwd' = e.cwd
        /\ IF e.err # ""
           THEN /\ ctx' = [NoCtx EXCEPT !.left = "entry_failed"]
                /\ out' = Raises("add_to_sys_path", e.err, <<>>)
           ELSE /\ ctx' = [pc |-> "body", path |-> e.path, cwd_old |-> e.cwd_old,
                           left |-> "never"]
                /\ out' = NoOutcome
        /\ UNCHANGED <<dill, conv, disk, sys_modules, capVars, dbgVars>>

\* the body of the with statement changes the working directory
body_chdir(d) ==
    /\ ctx.pc = "body"
    /\ cwd # d
    /\ cwd' = d
    /\ UNCHANGED <<dill, conv, loadVars, sys_path, ctxVars, capVars, dbgVars>>

\* the body of the with statement loads the dump (pydump.py:122-123)
body_load ==
    /\ ctx.pc = "body"
    /\ out.op = "none"
    /\ out' = load_dump(disk)
    /\ sys_modules' = TRUE
    /\ UNCHANGED <<dill, conv, disk, pathVars, ctxVars, capVars, dbgVars>>

\* leaving the with statement: the body returned, or raised (an exception
\* of load_dump is not caught in the body)
add_to_sys_path_exit(how) ==
    LET x == exit_effect(ctx.path, ctx.cwd_old, sys_path, cwd)
    IN  /\ ctx.pc = "body"
        /\ out.status = "raise" => how = "exception"
        /\ ctx' = [NoCtx EXCEPT !.left = how]
        /\ sys_path' = x.sys_path
        /\ cwd' = x.cwd
        /\ UNCHANGED <<dill, conv, loadVars, entry, capVars, dbgVars>>

(***************************************************************************)
(* Python dicts as sequences of <<key, value>> pairs in insertion order.   *)
(***************************************************************************)
Keys(d) == {d[i][1] : i \in DOMAIN d}

Has(d, k) == k \in Keys(d)

Get(d, k) == d[CHOOSE i \in DOMAIN d : d[i][1] = k][2]

\* d[k] = v
Put(d, k, v) == DictOf(Append(d, <<k, v>>))

RECURSIVE Update(_, _)
\* d.update(e)
Update(d, e) == IF e = <<>> THEN d ELSE Update(Put(d, e[1][1], e[1][2]), Tail(e))

(***************************************************************************)
(* Live code objects and frames.                                           *)
(***************************************************************************)
\* a constant of a code object that is no code object
Const(text) ==
    [code |-> FALSE, co_filename |-> "", co_name |-> text, co_firstlineno |-> 0,
     co_consts |-> <<>>]

Code(filename, name, firstlineno, consts) ==
    [code |-> TRUE, co_filename |-> filename, co_name |-> name,
     co_firstlineno |-> firstlineno, co_consts |-> consts]

\* def f(self): ... in m.py, run as `python m.py`: a relative file name
cF == Code("m.py", "f", 1, <<Const("None")>>)

cM == Code("m.py", "<module>", 1, <<cF, Const("None")>>)

\* a code object of another file among the constants (code.replace(co_consts=...))
cGen == Code("/a/gen.py", "<lambda>", 1, <<>>)

cG == Code("/lib/n.py", "g", 5, <<cGen>>)

\* {"__name__": "mymod", "len": 1, "x": <socket>}
gMain == <<<<4, 6>>, <<3, 7>>, <<2, 14>>>>

\* {"x": 1}
gLib == <<<<2, 7>>>>

Frame(code, locals, globals, lineno) ==
    [f_code |-> code, f_locals |-> locals, f_globals |-> globals,
     f_lineno |-> lineno]

\* module level of m.py, with x = []; x.append(x)
FrMod == Frame(cM, <<<<2, 25>>>>, gMain, 1)

\* a method of m.py: {"self": <Conn>, "x": [1, 'x']}
FrMeth == Frame(cF, <<<<5, 28>>, <<2, 18>>>>, gMain, 2)

\* a function of n.py: {"x": 1}
FrLib == Frame(cG, <<<<2, 7>>>>, gLib, 2)

\* the frames below the one that caught the exception, outermost first
CallerStacks == {<<>>, <<FrMod>>, <<FrMeth>>, <<FrMod, FrLib>>}

\* A link of the live chain: its frame and its tb_lineno, the line the frame
\* raised at, which is after, at or before the line the frame is at when it is
\* captured (f_lineno).
LiveLink(frame, tb_lineno) == [tb_frame |-> frame, tb_lineno |-> tb_lineno]

LiveLinks ==
    {LiveLink(FrMod, 2), LiveLink(FrMeth, 2), LiveLink(FrMeth, 1), LiveLink(FrLib, 1)}

\* links of the traceback chain
MaxLinks == 2

RECURSIVE Chains(_)
Chains(n) ==
    IF n = 0 THEN {<<>>}
    ELSE {Append(c, l) : c \in Chains(n - 1), l \in LiveLinks}

\* The live traceback: stack[1] is the outermost frame, stack[i].f_back is
\* stack[i-1]; the chain's links are the frames start..Len(stack), in this
\* order, and tb_lineno[k] is the tb_lineno of the k-th link.
Live(callers, chain) ==
    [stack |-> callers \o [k \in DOMAIN chain |-> chain[k].tb_frame],
     start |-> Len(callers) + 1,
     tb_lineno |-> [k \in DOMAIN chain |-> chain[k].tb_lineno]]

Lives ==
    UNION {{Live(c, chain) : chain \in Chains(n)} :
              c \in CallerStacks, n \in 1..MaxLinks}

\* no traceback: nothing failed yet
NoLive == [stack |-> <<>>, start |-> 1, tb_lineno |-> <<>>]

NLinks(l) == Len(l.stack) - l.start + 1

(***************************************************************************)
(* The source files.                                                       *)
(***************************************************************************)
\* a file's text is the sequence of its lines
TextM == <<"def f(self):", "    return 1/0">>

TextN == <<"def g():", "    return h()">>

SrcFile(status, text) == [status |-> status, text |-> text]

\* "text": open(path).read() returns the text; "missing", "denied", "isdir":
\* open raises an OSError; "undecodable": read raises UnicodeDecodeError
Statuses == {"text", "missing", "denied", "isdir", "undecodable"}

FileSystems ==
    {<<<<"/a/m.py", SrcFile(st, TextM)>>, <<"/lib/n.py", SrcFile("text", TextN)>>>> :
        st \in Statuses}
    \cup {<<<<"/a/m.py", SrcFile("text", TextM)>>, <<"/lib/n.py", SrcFile(st, TextN)>>>> :
        st \in {"missing", "undecodable"}}

NoFs == <<>>

\* open(filename).read(): the text, or the class of the exception
read(filename) ==
    IF ~Has(fs, filename) THEN [err |-> "FileNotFoundError", text |-> <<>>]
    ELSE LET f == Get(fs, filename)
         IN  CASE f.status = "text" -> [err |-> "", text |-> f.text]
               [] f.status = "missing" -> [err |-> "FileNotFoundError", text |-> <<>>]
               [] f.status = "denied" -> [err |-> "PermissionError", text |-> <<>>]
               [] f.status = "isdir" -> [err |-> "IsADirectoryError", text |-> <<>>]
               [] OTHER -> [err |-> "UnicodeDecodeError", text |-> <<>>]

\* the exception classes `except IOError` catches
IOErrors == {"FileNotFoundError", "PermissionError", "IsADirectoryError", "IOError"}

(***************************************************************************)
(* The snapshot: FakeCode values, FakeFrame and FakeTraceback objects.     *)
(* The objects live in two heaps (sequences); an object is its index and   *)
(* None is the absent object.                                              *)
(***************************************************************************)
RECURSIVE FakeCode(_)
\* pydump.py:144-161 (co_argcount, co_lnotab, co_varnames, co_flags, co_code and
\* co_lines are copied as they are and left out here)
FakeCode(code) ==
    [code EXCEPT
        !.co_filename = abspath(code.co_filename),
        !.co_consts = [i \in DOMAIN code.co_consts |->
                          IF code.co_consts[i].code
                          THEN FakeCode(code.co_consts[i])
                          ELSE code.co_consts[i]]]

Built(tbs, frames, id, err) == [tbs |-> tbs, frames |-> frames, id |-> id, err |-> err]

\* frame.f_locals["self"]
LiveSelf(frame) ==
    Get(frame.f_locals,
        CHOOSE k \in Keys(frame.f_locals) : Obj(k).ty = "str" /\ Obj(k).text = "self")

\* pydump.py:176-183: the new FakeFrame put on the heap, from the converted
\* dicts, the converted self and the frame built for f_back
NewFrame(frame, f_locals, f_globals, self, back) ==
    IF IsRaise(f_locals) THEN Built(<<>>, <<>>, None, f_locals.text)
    ELSE IF IsRaise(f_globals) THEN Built(<<>>, <<>>, None, f_globals.text)
    ELSE IF back.err # "" THEN back
    ELSE IF Has(f_locals.pairs, NewStr("self")) /\ IsRaise(self)
    THEN Built(<<>>, <<>>, None, self.text)
    ELSE Built(<<>>,
               Append(back.frames,
                      [f_code |-> FakeCode(frame.f_code),
                       f_locals |-> IF Has(f_locals.pairs, NewStr("self"))
                                    THEN Put(f_locals.pairs, NewStr("self"), self)
                                    ELSE f_locals.pairs,
                       f_globals |-> f_globals.pairs,
                       f_lineno |-> frame.f_lineno,
                       f_back |-> back.id]),
               Len(back.frames) + 1, "")

\* pydump.py:183: _convert_obj(frame.f_locals["self"])
ConvertSelf(frame) ==
    IF \E k \in Keys(frame.f_locals) : Obj(k).ty = "str" /\ Obj(k).text = "self"
    THEN _convert_obj(LiveSelf(frame)) ELSE NewStr("")

\* a FakeFrame that records no caller: f_back is always None
FakeFrame_no_back(frames, stack, i) ==
    NewFrame(stack[i], _convert_dict(stack[i].f_locals),
             _convert_dict(stack[i].f_globals), ConvertSelf(stack[i]),
             Built(<<>>, frames, None, ""))

RECURSIVE FakeFrame(_, _, _)
\* pydump.py:175-183, FakeFrame(stack[i]): the frames heap with the new
\* objects, the new object, and the exception that left the constructor
FakeFrame(frames, stack, i) ==
    CHOOSE new \in {NewFrame(stack[i], f_locals, f_globals, ConvertSelf(stack[i]), back) :
                        f_locals \in {_convert_dict(stack[i].f_locals)},
                        f_globals \in {_convert_dict(stack[i].f_globals)},
                        back \in {IF i > 1 THEN FakeFrame(frames, stack, i - 1)
                                  ELSE Built(<<>>, frames, None, "")}} : TRUE

\* pydump.py:189-193: the new FakeTraceback put on the heap, from its frame and
\* the link built for tb_next
NewTraceback(lineno, fr, next) ==
    IF fr.err # "" THEN fr
    ELSE IF next.err # "" THEN next
    ELSE Built(Append(next.tbs,
                      [tb_frame |-> fr.id, tb_lineno |-> lineno,
                       tb_next |-> next.id, tb_lasti |-> 0]),
               next.frames, Len(next.tbs) + 1, "")

RECURSIVE FakeTraceback(_, _, _, _)
RECURSIVE LinkAfter(_, _, _, _)

\* FakeTraceback(traceback.tb_next) if traceback.tb_next else None, on the
\* heaps left by the frame fr of the link of tb.stack[j]
LinkAfter(tbs, fr, tb, j) ==
    IF fr.err # "" THEN fr
    ELSE IF j < Len(tb.stack) THEN FakeTraceback(tbs, fr.frames, tb, j + 1)
    ELSE Built(tbs, fr.frames, None, "")

\* pydump.py:188-193, FakeTraceback of the link of tb.stack[j], the
\* (j - tb.start + 1)-th link of the live traceback tb
FakeTraceback(tbs, frames, tb, j) ==
    CHOOSE new \in {NewTraceback(tb.tb_lineno[j - tb.start + 1], fr,
                                  LinkAfter(tbs, fr, tb, j)) :
                        fr \in {[FakeFrame(frames, tb.stack, j) EXCEPT !.tbs = tbs]}} : TRUE

(***************************************************************************)
(* The walks over the snapshot and save_dump.                              *)
(***************************************************************************)
\* the names of dir(builtins) and, in the same order, the keys of builtins.__dict__
BuiltinSeq == <<"__name__", "__doc__", "len", "print">>

BuiltinNames == {BuiltinSeq[i] : i \in DOMAIN BuiltinSeq}

\* builtins.__dict__[name]
BuiltinValue(name) ==
    IF name = "__name__" THEN NewStr("builtins")
    ELSE IF name = "__doc__" THEN NewStr("Built-in functions, types, exceptions")
    ELSE Res("builtin", None, name, <<>>, {}, <<>>)

\* builtins.__dict__
BuiltinDict == [i \in DOMAIN BuiltinSeq |-> <<NewStr(BuiltinSeq[i]), BuiltinValue(BuiltinSeq[i])>>]

\* k in dir(builtins)
InDirBuiltins(k) == k.kind = "str" /\ k.text \in BuiltinNames

RECURSIVE SelectPairs(_)
\* pydump.py:201-202
SelectPairs(d) ==
    IF d = <<>> THEN <<>>
    ELSE IF InDirBuiltins(d[1][1]) THEN SelectPairs(Tail(d))
    ELSE <<d[1]>> \o SelectPairs(Tail(d))

\* an inner loop that stops after the link's own frame and leaves its callers
remove_frames_top(frames, f) ==
    IF f = None THEN frames
    ELSE [frames EXCEPT ![f].f_globals = SelectPairs(frames[f].f_globals)]

RECURSIVE remove_frames(_, _)
\* pydump.py:200-203: the inner loop, from frame f
remove_frames(frames, f) ==
    IF f = None THEN frames
    ELSE remove_frames([frames EXCEPT ![f].f_globals = SelectPairs(frames[f].f_globals)],
                       frames[f].f_back)

RECURSIVE _remove_builtins(_, _, _)
\* pydump.py:196-204: the frames heap after the walk from traceback t
_remove_builtins(tbs, frames, t) ==
    IF t = None THEN frames
    ELSE _remove_builtins(tbs, remove_frames(frames, tbs[t].tb_frame), tbs[t].tb_next)

RECURSIVE inject_frames(_, _)
\* pydump.py:211-213
inject_frames(frames, f) ==
    IF f = None THEN frames
    ELSE inject_frames([frames EXCEPT ![f].f_globals = Update(frames[f].f_globals, BuiltinDict)],
                       frames[f].f_back)

RECURSIVE _inject_builtins(_, _, _)
\* pydump.py:207-214
_inject_builtins(tbs, frames, t) ==
    IF t = None THEN frames
    ELSE _inject_builtins(tbs, inject_frames(frames, tbs[t].tb_frame), tbs[t].tb_next)

\* pydump.py:227-229
Placeholder(filename) == <<"couldn't locate '" \o filename \o "' during dump">>

\* pydump.py:223-229: files after the body of the inner loop for a frame of
\* code co_filename, given what open(filename).read() did
AddFile(acc, filename, co_filename, r) ==
    IF Has(acc.files, filename) THEN acc
    ELSE IF r.err = "" THEN [acc EXCEPT !.files = Put(@, filename, r.text)]
    ELSE IF r.err \in IOErrors
    THEN [acc EXCEPT !.files = Put(@, filename, Placeholder(co_filename))]
    ELSE [acc EXCEPT !.err = r.err]

RECURSIVE files_frames(_, _, _)
\* pydump.py:221-230: files and the exception that left the loop, from frame f
files_frames(frames, f, acc) ==
    IF f = None \/ acc.err # "" THEN acc
    ELSE files_frames(frames, frames[f].f_back,
                      AddFile(acc, abspath(frames[f].f_code.co_filename),
                              frames[f].f_code.co_filename,
                              read(abspath(frames[f].f_code.co_filename))))

RECURSIVE files_links(_, _, _, _)
\* pydump.py:219-231: the outer loop, from traceback t
files_links(tbs, frames, t, acc) ==
    IF t = None \/ acc.err # "" THEN acc
    ELSE files_links(tbs, frames, tbs[t].tb_next,
                     files_frames(frames, tbs[t].tb_frame, acc))

\* pydump.py:217-232
_get_traceback_files(tbs, frames, t) ==
    files_links(tbs, frames, t, [files |-> <<>>, err |-> ""])

\* pydump.py:69-73
DumpOf(fake_tb, files) ==
    IF files.err # "" THEN [err |-> files.err, dump |-> NoDump]
    ELSE [err |-> "",
          dump |-> [traceback |-> fake_tb.id, tbs |-> fake_tb.tbs,
                    frames |-> fake_tb.frames, files |-> files.files,
                    dump_version |-> DUMP_VERSION]]

\* pydump.py:67-73, on the FakeTraceback built
Stripped(fake_tb) ==
    [fake_tb EXCEPT !.frames = _remove_builtins(fake_tb.tbs, fake_tb.frames, fake_tb.id)]

WithFiles(fake_tb) ==
    DumpOf(fake_tb, _get_traceback_files(fake_tb.tbs, fake_tb.frames, fake_tb.id))

DumpFrom(fake_tb) ==
    IF fake_tb.err # "" THEN [err |-> fake_tb.err, dump |-> NoDump]
    ELSE WithFiles(Stripped(fake_tb))

\* pydump.py:64-73: the dump save_dump builds, or the exception that leaves it
build_dump == DumpFrom(FakeTraceback(<<>>, <<>>, live, live.start))

\* pydump.py:75-80: the file after the write, and how save_dump ends
Written(b, pickleReads) ==
    /\ IF b.err # ""
       THEN /\ out' = Raises("save_dump", b.err, <<>>)
            /\ UNCHANGED disk
       ELSE /\ out' = Returns("save_dump", NoDump, <<>>)
            /\ disk' = File("gzip", "ok",
                             IF pickleReads THEN "ok" ELSE "UnpicklingError", b.dump)

\* pydump.py:55-80.  A stream written by dill is read by dill; whether pickle
\* alone reads it depends on what dill had to emit for the kept values.
save_dump(pickleReads) ==
    /\ pc = "idle"
    /\ ctx.pc = "out"
    /\ live # NoLive
    /\ ~dill => pickleReads
    /\ \E b \in {build_dump} : Written(b, pickleReads)
    /\ UNCHANGED <<dill, conv, sys_modules, pathVars, ctxVars, capVars, dbgVars>>

(***************************************************************************)
(* debug_dump.                                                             *)
(***************************************************************************)
RECURSIVE _cache_files(_, _)
\* pydump.py:291-294: linecache.cache after the loop (the entry's size and
\* mtime are left out; lines are the text's lines, each ended by a newline)
_cache_files(cache, files) ==
    IF files = <<>> THEN cache
    ELSE _cache_files(
            Put(cache, files[1][1],
                [lines |-> [i \in DOMAIN files[1][2] |-> files[1][2][i] \o "\n"],
                 fullname |-> files[1][1]]),
            Tail(files))

\* pydump.py:125-130, on what load_dump gave
Prepare(loaded) ==
    IF loaded.status = "raise"
    THEN /\ out' = [loaded EXCEPT !.op = "debug_dump"]
         /\ UNCHANGED <<pc, linecache_cache, checkcache, old_checkcache, dbg>>
    ELSE /\ linecache_cache' = _cache_files(linecache_cache, loaded.value.files)
         /\ dbg' = [tbs |-> loaded.value.tbs,
                    frames |-> _inject_builtins(loaded.value.tbs, loaded.value.frames,
                                                loaded.value.traceback),
                    tb |-> loaded.value.traceback]
         /\ old_checkcache' = checkcache
         /\ checkcache' = "noop"
         /\ pc' = "post_mortem"
         /\ out' = [loaded EXCEPT !.op = "debug_dump", !.status = "running",
                                  !.value = NoDump]

\* pydump.py:122-123: `with add_to_sys_path('.', chdir=False)` around load_dump
AroundLoad(e) ==
    /\ sys_path' = exit_effect(e.path, e.cwd_old, e.sys_path, e.cwd).sys_path
    /\ cwd' = exit_effect(e.path, e.cwd_old, e.sys_path, e.cwd).cwd

\* pydump.py:108-130: debug_dump up to the call of post_mortem_func
debug_dump_start ==
    /\ pc = "idle"
    /\ ctx.pc = "out"
    /\ inspect_patched' = TRUE
    /\ sys_modules' = TRUE
    /\ \E e \in {enter_effect(".", FALSE)} : AroundLoad(e)
    /\ \E loaded \in {load_dump(disk)} : Prepare(loaded)
    /\ UNCHANGED <<dill, conv, disk, ctxVars, capVars>>

\* pydump.py:130-131: post_mortem_func returns
post_mortem_returns ==
    /\ pc = "post_mortem"
    /\ checkcache' = old_checkcache
    /\ pc' = "idle"
    /\ out' = [out EXCEPT !.status = "ok"]
    /\ UNCHANGED <<dill, conv, disk, sys_modules, pathVars, ctxVars, capVars,
                   linecache_cache, old_checkcache, inspect_patched, dbg>>

\* pydump.py:130: post_mortem_func raises, and the exception leaves debug_dump
post_mortem_raises ==
    /\ pc = "post_mortem"
    /\ pc' = "idle"
    /\ out' = [out EXCEPT !.status = "raise", !.err = "Exception"]
    /\ UNCHANGED <<dill, conv, disk, sys_modules, pathVars, ctxVars, capVars,
                   linecache_cache, checkcache, old_checkcache, inspect_patched, dbg>>

InitDbg ==
    /\ pc = "idle"
    /\ linecache_cache = <<>>
    /\ checkcache = "linecache.checkcache"
    /\ old_checkcache = "linecache.checkcache"
    /\ inspect_patched = FALSE
    /\ dbg = [tbs |-> <<>>, frames |-> <<>>, tb |-> None]

InitProc ==
    /\ disk = NoFile
    /\ out = NoOutcome
    /\ sys_modules = FALSE
    /\ sys_path = <<"/lib">>
    /\ cwd = "/a"
    /\ ctx = NoCtx
    /\ entry = [sys_path |-> <<"/lib">>, cwd |-> "/a"]
    /\ live = NoLive
    /\ fs = NoFs
    /\ InitDbg

InitLoad ==
    /\ dill \in BOOLEAN
    /\ conv = NoCall
    /\ disk \in Files
    /\ out = NoOutcome
    /\ sys_modules = FALSE
    /\ sys_path \in {<<"/lib">>, <<"/a", "/lib">>}
    /\ cwd \in Dirs
    /\ ctx = NoCtx
    /\ entry = [sys_path |-> sys_path, cwd |-> cwd]
    /\ live = NoLive
    /\ fs = NoFs
    /\ InitDbg

NextLoad ==
    \/ LoadDump
    \/ \E path \in {"None", ".", Gone} \cup Dirs, chdir \in BOOLEAN :
          add_to_sys_path_enter(path, chdir)
    \/ \E d \in Dirs : body_chdir(d)
    \/ body_load
    \/ \E how \in {"normal", "exception"} : add_to_sys_path_exit(how)

SpecLoad == InitLoad /\ [][NextLoad]_vars

InitSanitize ==
    /\ dill \in BOOLEAN
    /\ conv = NoCall
    /\ InitProc

NextSanitize ==
    \/ \E v \in Values : CallConvert(v)
    \/ \E v \in Values : CallConvertObj(v)

SpecSanitize == InitSanitize /\ [][NextSanitize]_vars

Init ==
    /\ dill \in BOOLEAN
    /\ conv = NoCall
    /\ disk = NoFile
    /\ out = NoOutcome
    /\ sys_modules = FALSE
    /\ sys_path = <<"/lib">>
    /\ cwd = "/a"
    /\ ctx = NoCtx
    /\ entry = [sys_path |-> <<"/lib">>, cwd |-> "/a"]
    /\ live \in Lives
    /\ fs \in FileSystems
    /\ InitDbg

Next ==
    \/ \E pickleReads \in BOOLEAN : save_dump(pickleReads)
    \/ debug_dump_start
    \/ post_mortem_returns
    \/ post_mortem_raises

Spec == Init /\ [][Next]_vars

(***************************************************************************)
(* The properties.                                                         *)
(***************************************************************************)
RECURSIVE TbChain(_, _, _)
\* the links from t along tb_next, at most n of them
TbChain(tbs, t, n) ==
    IF t = None \/ n = 0 THEN <<>>
    ELSE <<t>> \o TbChain(tbs, tbs[t].tb_next, n - 1)

RECURSIVE FrChain(_, _, _)
\* the frames from f along f_back, at most n of them
FrChain(frames, f, n) ==
    IF f = None \/ n = 0 THEN <<>>
    ELSE <<f>> \o FrChain(frames, frames[f].f_back, n - 1)

\* the chains of a snapshot g = [tbs, frames, traceback]; a chain that comes
\* back to one of its nodes is longer than its heap
Links(g) == TbChain(g.tbs, g.traceback, Len(g.tbs) + 1)

Callers(g, f) == FrChain(g.frames, f, Len(g.frames) + 1)

ReachableFrames(g) ==
    UNION {{Callers(g, g.tbs[Links(g)[k]].tb_frame)[m] :
               m \in DOMAIN Callers(g, g.tbs[Links(g)[k]].tb_frame)} :
           k \in DOMAIN Links(g)}

Distinct(seq) == \A i, j \in DOMAIN seq : i # j => seq[i] # seq[j]

Saved == disk.container # "missing"

Session == [tbs |-> dbg.tbs, frames |-> dbg.frames, traceback |-> dbg.tb]

\* the live frame the m-th frame of the k-th link's caller chain was made from
LiveOf(k, m) == live.stack[live.start + k - m]

\* C1: with dill present, whenever the dill attempt fails, pickle is then tried
\* on a readable handle of the same path, and load_dump returns the dump if
\* pickle can read the file
PickleCanRead(file) ==
    \/ ReadOutcome("pickle", "gz", file) = "ok"
    \/ ReadOutcome("pickle", "gz", file) = "IOError"
         /\ ReadOutcome("pickle", "plain", file) = "ok"

DillFailed ==
    /\ out.op = "load_dump"
    /\ out.attempts # <<>>
    /\ out.attempts[1][1] = "dill"
    /\ ~(out.status = "ok" /\ out.attempts[Len(out.attempts)][1] = "dill")

C1_PickleFallback ==
    (dill /\ DillFailed) =>
        /\ \E i \in DOMAIN out.attempts :
              out.attempts[i][1] = "pickle" /\ out.attempts[i][2] \in {"gz", "plain"}
        /\ PickleCanRead(disk) => out.status = "ok"

\* C2: in both modes _convert and _convert_obj return a value without raising,
\* for every value, a container that contains itself included
C2_SanitizerTotal == conv.fn # "none" => ~IsRaise(conv.out)

\* C3: after save_dump no key of a reachable frame's f_globals is the name of a
\* built-in, and after _inject_builtins on the loaded dump every built-in name
\* is a key of every reachable frame's f_globals
C3_BuiltinRoundTrip ==
    /\ Saved =>
          \A f \in ReachableFrames(disk.payload) :
             \A k \in Keys(disk.payload.frames[f].f_globals) :
                ~(k.kind = "str" /\ k.text \in BuiltinNames)
    /\ pc = "post_mortem" =>
          /\ ReachableFrames(Session) = DOMAIN dbg.frames
          /\ \A f \in ReachableFrames(Session) :
                \A b \in BuiltinNames : Has(dbg.frames[f].f_globals, NewStr(b))

\* a session on a dump with a link whose frame has a caller, taken where the
\* module bound names of built-ins itself
C3_Witness ==
    /\ pc = "post_mortem"
    /\ Len(dbg.tbs) >= 2
    /\ \E f \in DOMAIN dbg.frames : dbg.frames[f].f_back # None
    /\ \A i \in DOMAIN live.stack : live.stack[i].f_globals = gMain

\* C4: every source path of a FakeCode of the captured chain, the nested ones of
\* co_consts included, is a key of dump["files"], with the file's text or the
\* placeholder as its value
RECURSIVE PathsOf(_)
PathsOf(code) ==
    {code.co_filename} \cup
        UNION {IF code.co_consts[i].code THEN PathsOf(code.co_consts[i]) ELSE {} :
                  i \in DOMAIN code.co_consts}

C4_ArchiveComplete ==
    Saved =>
        \A f \in ReachableFrames(disk.payload) :
           \A path \in PathsOf(disk.payload.frames[f].f_code) :
              /\ Has(disk.payload.files, path)
              /\ \/ Get(disk.payload.files, path) = read(path).text /\ read(path).err = ""
                 \/ Get(disk.payload.files, path) = Placeholder(path)

\* C5: the FakeTraceback chain has as many nodes as the live chain has links, in
\* the same order, and ends in None; each link's frame has as many callers as
\* the live frame and its chain ends in None; no node is reachable from itself
C5_ChainShape ==
    Saved =>
        LET g == disk.payload
        IN  /\ Len(Links(g)) = NLinks(live)
            /\ Distinct(Links(g))
            /\ g.tbs[Links(g)[Len(Links(g))]].tb_next = None
            /\ \A k \in DOMAIN Links(g) :
                  LET c == Callers(g, g.tbs[Links(g)[k]].tb_frame)
                  IN  /\ Len(c) = live.start + k - 1
                      /\ Distinct(c)
                      /\ g.frames[c[Len(c)]].f_back = None
                      /\ g.tbs[Links(g)[k]].tb_lineno = live.tb_lineno[k]
                      /\ \A m \in DOMAIN c :
                            /\ g.frames[c[m]].f_lineno = LiveOf(k, m).f_lineno
                            /\ g.frames[c[m]].f_code.co_name = LiveOf(k, m).f_code.co_name

\* a saved chain of two links of different frames, the first with a caller and
\* caught in a handler, so that its tb_lineno is not its frame's f_lineno
C5_Witness ==
    /\ Saved
    /\ NLinks(live) = 2
    /\ live.start = 2
    /\ live.tb_lineno[1] # live.stack[2].f_lineno
    /\ live.stack[2] # live.stack[3]
    /\ Len(disk.payload.tbs) = 2

\* C6: add_to_sys_path restores sys.path and the working directory to their
\* values at entry whenever the context is left: by the body's return, by an
\* exception of the body, or by a failure during entry
C6_Restored ==
    (ctx.pc = "out" /\ ctx.left # "never") =>
        sys_path = entry.sys_path /\ cwd = entry.cwd

\* C7: a source file of a captured frame that cannot be read, for any reason,
\* gets the placeholder and the capture goes on
CapturedPaths == {abspath(live.stack[i].f_code.co_filename) : i \in DOMAIN live.stack}

Unreadable(path) == read(path).err # ""

C7_UnreadableDegrades ==
    (out.op = "save_dump" /\ out.err # "RecursionError") =>
        /\ out.status = "ok"
        /\ \A path \in CapturedPaths :
              Unreadable(path) => Get(disk.payload.files, path) = Placeholder(path)

\* C8: without dill, _convert keeps every primitive (bool and subclasses of the
\* primitive types included), rebuilds tuple, list and set with each element
\* sanitized and dict with each key and value sanitized, one entry per entry,
\* and gives the textual description of anything else
ClaimedPrimitive == BUILTIN \cup {"bool", "IntSub"}

C8_Classified(v, r) ==
    LET o == Obj(v)
    IN  CASE o.ty = "NoneType" -> TRUE
          [] o.ty \in ClaimedPrimitive -> r = Same(v)
          [] o.ty \in {"tuple", "list"} ->
                /\ r.kind = o.ty
                /\ r.items = [i \in DOMAIN o.items |-> _convert(o.items[i])]
          [] o.ty = "set" ->
                /\ r.kind = "set"
                /\ r.elems = {_convert(o.items[i]) : i \in DOMAIN o.items}
          [] o.ty = "dict" ->
                /\ r.kind = "dict"
                /\ r.pairs = [i \in DOMAIN o.pairs |->
                                 <<_convert(o.pairs[i][1]), _convert(o.pairs[i][2])>>]
          [] OTHER -> r = _safe_repr(v)

C8_RestrictedClassification ==
    (conv.fn = "_convert" /\ ~dill) => C8_Classified(conv.arg, conv.out)

\* C9: after debug_dump reinstates the built-ins, a global name the live module
\* bound itself resolves, in every restored frame, to the captured sanitized
\* value of that binding
C9_GlobalsResolveAsLive ==
    pc = "post_mortem" =>
        \A k \in DOMAIN Links(Session) :
           LET c == Callers(Session, dbg.tbs[Links(Session)[k]].tb_frame)
           IN  \A m \in DOMAIN c :
                  \A i \in DOMAIN LiveOf(k, m).f_globals :
                     LET bound == LiveOf(k, m).f_globals[i]
                     IN  /\ Has(dbg.frames[c[m]].f_globals, _convert(bound[1]))
                         /\ Get(dbg.frames[c[m]].f_globals, _convert(bound[1]))
                               = _convert(bound[2])

\* C10: while post_mortem_func runs, linecache.cache has an entry for every path
\* of the dump's files, the built-ins are reinstated and linecache.checkcache is
\* a no-op; when the session ends, by return or by exception, the checkcache
\* installed before the call is installed again
SessionEnded ==
    /\ pc = "idle"
    /\ out.op = "debug_dump"
    /\ out.status = "ok" \/ (out.status = "raise" /\ out.err = "Exception")

C10_SessionScoped ==
    /\ pc = "post_mortem" =>
          /\ checkcache = "noop"
          /\ \A path \in Keys(disk.payload.files) : Has(linecache_cache, path)
          /\ \A f \in DOMAIN dbg.frames :
                \A b \in BuiltinNames : Has(dbg.frames[f].f_globals, NewStr(b))
    /\ SessionEnded => checkcache = old_checkcache

====
